---- MODULE Spec2Model ----
(***************************************************************************)
(* The node facade of rosrust (rosrust/src/api/ros.rs): one Ros handle     *)
(* binding a name resolver, a directory client ("master") and the node     *)
(* runtime ("slave").                                                      *)
(*                                                                         *)
(* Graph names are strings, modelled as sequences of one-character         *)
(* strings: "/a" is <<"/", "a">>.  The resolver, the slave tables and the  *)
(* directory live outside ros.rs; they are modelled from their contracts   *)
(* and ros.rs is modelled from its code.                                   *)
(***************************************************************************)
EXTENDS Naturals, Sequences, FiniteSets

VARIABLES
    boot,       \* what Ros::new was given: [namespace, leaf, maps]
    alive,      \* TRUE iff Ros::new returned Ok(ros)
    newErr,     \* the error Ros::new returned ("" when it returned Ok)
    newErrArg,  \* the name that error carries (<<>> when it carries none)
    ids,        \* the caller ids Slave::new and Master::new were given
    created,    \* the components Ros::new_raw created, in order
    name,       \* Ros.name: the absolute node name
    resolver,   \* Ros.resolver: [path, namespace, mapper]
    slave,      \* Ros.slave: [pubs, subs, srvs], sets of absolute names
    master,     \* what the directory holds for this node: [pubs, subs, srvs]
    pc,         \* "ready", the position inside wait_for_service, or "down"
    op,         \* the facade call made last: [fn, arg]
    target,     \* the resolved name of that call (<<>> if resolution failed)
    result,     \* what that call returned: [tag, from]
    calls,      \* the slave and master calls that call made, in order
    timeout,    \* wait_for_service: the timeout argument [some, d]
    elapsed,    \* wait_for_service: now.elapsed(), in milliseconds
    lookups,    \* wait_for_service: lookup_service calls made so far
    lastResp    \* wait_for_service: the answer of the last lookup_service

vars == <<boot, alive, newErr, newErrArg, ids, created, name, resolver, slave, master, pc, op,
          target, result, calls, timeout, elapsed, lookups, lastResp>>

rosVars == <<boot, alive, newErr, newErrArg, ids, created, name, resolver>>
waitVars == <<timeout, elapsed, lookups, lastResp>>

----------------------------------------------------------------------------
(* Bounds of the model.                                                    *)

\* Granularity of time, in milliseconds.
Tick == 50
\* A lookup_service call takes 0 .. MaxLookupTicks ticks.
MaxLookupTicks == 1
\* A sleep overshoots its duration by 0 .. MaxOversleepTicks ticks.
MaxOversleepTicks == 1
\* The timeout argument is 0 .. MaxTimeoutTicks ticks.
MaxTimeoutTicks == 2
\* The lookup counter saturates here.
MaxCount == 2

----------------------------------------------------------------------------
(* Strings.                                                                *)

Slash == <<"/">>

Min(a, b) == IF a < b THEN a ELSE b

\* str::contains for a one-character pattern
Contains(s, c) == \E i \in 1..Len(s) : s[i] = c

RECURSIVE TrimRightMatches(_, _)
\* str::trim_right_matches for a one-character pattern
TrimRightMatches(s, c) ==
    IF Len(s) > 0 /\ s[Len(s)] = c
    THEN TrimRightMatches(SubSeq(s, 1, Len(s) - 1), c)
    ELSE s

----------------------------------------------------------------------------
(* The name resolver (naming::Resolver).                                   *)

\* Characters no component of a graph name may hold.
IllegalChars == {" "}

\* An absolute graph name: a leading "/", then non-empty components of legal
\* characters separated by "/".
ValidPath(s) ==
    /\ Len(s) >= 2
    /\ s[1] = "/"
    /\ s[Len(s)] # "/"
    /\ \A i \in 1..Len(s) : s[i] \notin IllegalChars
    /\ \A i \in 1..(Len(s) - 1) : ~(s[i] = "/" /\ s[i + 1] = "/")

RECURSIVE ParentOf(_)
\* The namespace of an absolute name: the name without its last component.
ParentOf(s) ==
    IF Len(s) = 0 THEN s
    ELSE IF s[Len(s)] = "/" THEN SubSeq(s, 1, Len(s) - 1)
    ELSE ParentOf(SubSeq(s, 1, Len(s) - 1))

\* Resolver::new(name): fails on a name that is no absolute graph name.
ResolverNewOk(nodeName) == ValidPath(nodeName)

ResolverNew(nodeName) ==
    [path |-> nodeName, namespace |-> ParentOf(nodeName), mapper |-> {}]

\* The absolute name a name stands for, before remapping.
Resolve(r, n) ==
    IF Len(n) > 0 /\ n[1] = "/" THEN n
    ELSE IF Len(n) > 0 /\ n[1] = "~" THEN r.path \o Slash \o Tail(n)
    ELSE r.namespace \o Slash \o n

\* The remap table is a set of <<source, destination>> pairs with unique
\* sources; a lookup is one step, its result is not looked up again.
Remap(mapper, n) ==
    IF \E p \in mapper : p[1] = n
    THEN (CHOOSE p \in mapper : p[1] = n)[2]
    ELSE n

\* Resolver::translate succeeds
TranslateOk(r, n) == ValidPath(Resolve(r, n))

\* Resolver::translate, where it succeeds
Translate(r, n) == Remap(r.mapper, Resolve(r, n))

\* Resolver::map succeeds: both arguments translate
ResolverMapOk(r, src, dst) == TranslateOk(r, src) /\ TranslateOk(r, dst)

\* Resolver::map: both arguments are translated and the pair is stored
ResolverMap(r, src, dst) ==
    [r EXCEPT !.mapper =
        {p \in r.mapper : p[1] # Translate(r, src)}
            \cup {<<Translate(r, src), Translate(r, dst)>>}]

----------------------------------------------------------------------------
(* Results and call records.                                               *)

Ok == [tag |-> "Ok", from |-> ""]
\* An error, named by the call that produced it.
Err(from) == [tag |-> "Err", from |-> from]
TimeoutError == [tag |-> "Err", from |-> "TimeoutError"]
NoResult == [tag |-> "None", from |-> ""]

\* One call on the slave or on the master: the function, the name it was
\* given, whether it succeeded, and whether the callee held an entry for that
\* name when the call was made.
Call(fn, n, ok, held) == [fn |-> fn, name |-> n, ok |-> ok, held |-> held]

----------------------------------------------------------------------------
(* Construction: Ros::new_raw and Ros::new.                                *)

\* What resolve::namespace(), resolve::name() and resolve::mappings() give.
Namespaces == {<<>>, <<"/", "w", "/">>}
LeafNames == {<<"n">>, <<"n", "/", "m">>, <<"n", " ">>}
MappingLists ==
    {<<>>, << <<<<"a">>, <<"/", "b">>>> >>, << <<<<"a", " ">>, <<"/", "b">>>> >>}

\* the node name built from the namespace as given
NodeName_NoTrim(namespace, leaf) == namespace \o Slash \o leaf

\* Ros::new_raw: the absolute node name
NodeName(namespace, leaf) == TrimRightMatches(namespace, "/") \o Slash \o leaf

\* No resolver, and no caller ids: what a failed construction leaves.
NoResolver == [path |-> <<>>, namespace |-> <<>>, mapper |-> {}]
NoIds == [slave |-> <<>>, master |-> <<>>]

\* new_raw looking for the "/" only once the resolver and the slave exist
NewRaw_CheckAfterSlave(namespace, leaf, slaveOk) ==
    LET n == NodeName(namespace, leaf)
    IN  IF ~ResolverNewOk(n)
        THEN [ok |-> FALSE, err |-> "Resolver::new", errArg |-> <<>>,
              created |-> <<>>, ids |-> NoIds,
              name |-> <<>>, resolver |-> NoResolver]
        ELSE IF ~slaveOk
        THEN [ok |-> FALSE, err |-> "Slave::new", errArg |-> <<>>,
              created |-> <<"resolver">>, ids |-> NoIds,
              name |-> <<>>, resolver |-> NoResolver]
        ELSE IF Contains(leaf, "/")
        THEN [ok |-> FALSE, err |-> "IllegalCharacter", errArg |-> leaf,
              created |-> <<"resolver", "slave">>,
              ids |-> [slave |-> n, master |-> <<>>],
              name |-> <<>>, resolver |-> NoResolver]
        ELSE [ok |-> TRUE, err |-> "", errArg |-> <<>>,
              created |-> <<"resolver", "slave", "master">>,
              ids |-> [slave |-> n, master |-> n],
              name |-> n, resolver |-> ResolverNew(n)]

\* Ros::new_raw: [ok, err, errArg, created, ids, name, resolver]
NewRaw(namespace, leaf, slaveOk) ==
    LET n == NodeName(namespace, leaf)
    IN  IF Contains(leaf, "/")
        THEN [ok |-> FALSE, err |-> "IllegalCharacter", errArg |-> leaf,
              created |-> <<>>, ids |-> NoIds,
              name |-> <<>>, resolver |-> NoResolver]
        ELSE IF ~ResolverNewOk(n)
        THEN [ok |-> FALSE, err |-> "Resolver::new", errArg |-> <<>>,
              created |-> <<>>, ids |-> NoIds,
              name |-> <<>>, resolver |-> NoResolver]
        ELSE IF ~slaveOk
        THEN [ok |-> FALSE, err |-> "Slave::new", errArg |-> <<>>,
              created |-> <<"resolver">>, ids |-> NoIds,
              name |-> <<>>, resolver |-> NoResolver]
        ELSE [ok |-> TRUE, err |-> "", errArg |-> <<>>,
              created |-> <<"resolver", "slave", "master">>,
              ids |-> [slave |-> n, master |-> n],
              name |-> n, resolver |-> ResolverNew(n)]

\* Ros::map
RosMapOk(r, src, dst) == ResolverMapOk(r, src, dst)
RosMap(r, src, dst) == ResolverMap(r, src, dst)

RECURSIVE ApplyMappings_SkipRejected(_, _)
\* the loop going on to the next mapping when Ros::map rejects one
ApplyMappings_SkipRejected(r, maps) ==
    IF maps = <<>> THEN [ok |-> TRUE, resolver |-> r]
    ELSE IF ~RosMapOk(r, Head(maps)[1], Head(maps)[2])
    THEN ApplyMappings_SkipRejected(r, Tail(maps))
    ELSE ApplyMappings_SkipRejected(RosMap(r, Head(maps)[1], Head(maps)[2]),
                                    Tail(maps))

RECURSIVE ApplyMappings(_, _)
\* Ros::new: the loop over resolve::mappings(): [ok, resolver]
ApplyMappings(r, maps) ==
    IF maps = <<>> THEN [ok |-> TRUE, resolver |-> r]
    ELSE IF ~RosMapOk(r, Head(maps)[1], Head(maps)[2])
    THEN [ok |-> FALSE, resolver |-> r]
    ELSE ApplyMappings(RosMap(r, Head(maps)[1], Head(maps)[2]), Tail(maps))

\* Ros::new: [ok, err, errArg, created, ids, name, resolver]
New(namespace, leaf, maps, slaveOk) ==
    LET raw == NewRaw(namespace, leaf, slaveOk)
        mapped == ApplyMappings(raw.resolver, maps)
    IN  IF ~raw.ok THEN raw
        ELSE IF ~mapped.ok
        THEN [raw EXCEPT !.ok = FALSE, !.err = "Resolver::map"]
        ELSE [raw EXCEPT !.resolver = mapped.resolver]

EmptyTables == [pubs |-> {}, subs |-> {}, srvs |-> {}]
\* Option<Duration>: None, and Some(d) with d in milliseconds
NoTimeout == [some |-> FALSE, d |-> 0]
Some(d) == [some |-> TRUE, d |-> d]
\* No lookup_service answer yet.
NoResponse == [kind |-> "None", msg |-> ""]

Init ==
    \E namespace \in Namespaces, leaf \in LeafNames, maps \in MappingLists,
       slaveOk \in BOOLEAN :
        LET ros == New(namespace, leaf, maps, slaveOk)
        IN  /\ boot = [namespace |-> namespace, leaf |-> leaf, maps |-> maps]
            /\ alive = ros.ok
            /\ newErr = ros.err
            /\ newErrArg = ros.errArg
            /\ ids = ros.ids
            /\ created = ros.created
            /\ name = ros.name
            /\ resolver = ros.resolver
            /\ slave = EmptyTables
            /\ master = EmptyTables
            /\ pc = "ready"
            /\ op = [fn |-> "new", arg |-> leaf]
            /\ target = <<>>
            /\ result = IF ros.ok THEN Ok ELSE Err(ros.err)
            /\ calls = <<>>
            /\ timeout = NoTimeout
            /\ elapsed = 0
            /\ lookups = 0
            /\ lastResp = NoResponse

----------------------------------------------------------------------------
(* The slave tables (api::slave::Slave).                                   *)

\* add_publication is idempotent on the topic
AddPublication(s, n) == [s EXCEPT !.pubs = @ \cup {n}]
RemovePublication(s, n) == [s EXCEPT !.pubs = @ \ {n}]
AddSubscription(s, n) == [s EXCEPT !.subs = @ \cup {n}]
RemoveSubscription(s, n) == [s EXCEPT !.subs = @ \ {n}]
AddService(s, n) == [s EXCEPT !.srvs = @ \cup {n}]
RemoveService(s, n) == [s EXCEPT !.srvs = @ \ {n}]

(* The directory (api::master::Master): the registrations it holds for     *)
(* this node.  A call that fails changes nothing.                          *)

RegisterPublisher(m, n) == [m EXCEPT !.pubs = @ \cup {n}]
UnregisterPublisher(m, n) == [m EXCEPT !.pubs = @ \ {n}]
RegisterSubscriber(m, n) == [m EXCEPT !.subs = @ \cup {n}]
UnregisterSubscriber(m, n) == [m EXCEPT !.subs = @ \ {n}]
RegisterService(m, n) == [m EXCEPT !.srvs = @ \cup {n}]
UnregisterService(m, n) == [m EXCEPT !.srvs = @ \ {n}]

\* The outcomes of a call that is made only if made holds.
Outcomes(made) == IF made THEN BOOLEAN ELSE {FALSE}

\* The locals of wait_for_service do not outlive the next facade call.
WaitLocalsGone ==
    /\ timeout' = NoTimeout
    /\ elapsed' = 0
    /\ lookups' = 0
    /\ lastResp' = NoResponse

----------------------------------------------------------------------------
(* Ros::publish.                                                           *)

\* The names the facade calls are made with: relative, absolute, private,
\* and one with an illegal character.
Topics == {<<"a">>, <<"/", "b">>, <<"a", " ">>}
SubscribedTopics == {<<"~", "a">>, <<"a", " ">>}
Services == {<<"a">>, <<"a", " ">>}

\* publish without the remove_publication of the failure branch
PublishSlave_NoRollback(s, n, addOk, regOk) ==
    IF ~addOk THEN s ELSE AddPublication(s, n)

\* the slave after publish(topic) with topic resolved to n
PublishSlave(s, n, addOk, regOk) ==
    IF ~addOk THEN s
    ELSE IF regOk THEN AddPublication(s, n)
    ELSE RemovePublication(AddPublication(s, n), n)

\* publish registering the topic as given instead of the resolved name
PublishMaster_RawTopic(m, topic, n, addOk, regOk, unregOk) ==
    IF ~addOk THEN m
    ELSE IF regOk THEN RegisterPublisher(m, topic)
    ELSE IF unregOk THEN UnregisterPublisher(m, n)
    ELSE m

\* the directory after it: every directory call is made with the resolved name
PublishMaster(m, topic, n, addOk, regOk, unregOk) ==
    IF ~addOk THEN m
    ELSE IF regOk THEN RegisterPublisher(m, n)
    ELSE IF unregOk THEN UnregisterPublisher(m, n)
    ELSE m

\* what it returns
PublishResult(addOk, regOk, unregOk) ==
    IF ~addOk THEN Err("add_publication")
    ELSE IF regOk THEN Ok
    ELSE IF ~unregOk THEN Err("unregister_publisher")
    ELSE Err("register_publisher")

\* publish trying register_publisher a second time when it failed
PublishCalls_RegisterRetried(s, m, n, addOk, regOk, unregOk) ==
    <<Call("add_publication", n, addOk, n \in s.pubs)>>
    \o (IF addOk
        THEN <<Call("register_publisher", n, regOk, n \in m.pubs)>>
        ELSE <<>>)
    \o (IF addOk /\ ~regOk
        THEN <<Call("register_publisher", n, regOk, n \in m.pubs),
               Call("remove_publication", n, TRUE, TRUE),
               Call("unregister_publisher", n, unregOk, n \in m.pubs)>>
        ELSE <<>>)

\* the calls it makes
PublishCalls(s, m, n, addOk, regOk, unregOk) ==
    <<Call("add_publication", n, addOk, n \in s.pubs)>>
    \o (IF addOk
        THEN <<Call("register_publisher", n, regOk, n \in m.pubs)>>
        ELSE <<>>)
    \o (IF addOk /\ ~regOk
        THEN <<Call("remove_publication", n, TRUE, TRUE),
               Call("unregister_publisher", n, unregOk, n \in m.pubs)>>
        ELSE <<>>)

Publish ==
    \E topic \in Topics :
    \E addOk \in Outcomes(TranslateOk(resolver, topic)) :
    \E regOk \in Outcomes(addOk) :
    \E unregOk \in Outcomes(addOk /\ ~regOk) :
        /\ alive /\ pc = "ready"
        /\ op' = [fn |-> "publish", arg |-> topic]
        /\ IF ~TranslateOk(resolver, topic)
           THEN /\ target' = <<>>
                /\ result' = Err("translate")
                /\ calls' = <<>>
                /\ UNCHANGED <<slave, master>>
           ELSE LET n == Translate(resolver, topic)
                IN  /\ target' = n
                    /\ slave' = PublishSlave(slave, n, addOk, regOk)
                    /\ master' = PublishMaster(master, topic, n, addOk, regOk,
                                               unregOk)
                    /\ result' = PublishResult(addOk, regOk, unregOk)
                    /\ calls' = PublishCalls(slave, master, n, addOk, regOk, unregOk)
        /\ WaitLocalsGone
        /\ UNCHANGED <<rosVars, pc>>

----------------------------------------------------------------------------
(* Ros::subscribe.                                                         *)

\* the slave after subscribe(topic) with topic resolved to n
SubscribeSlave(s, n, addOk, regOk) ==
    IF ~addOk THEN s
    ELSE IF regOk THEN AddSubscription(s, n)
    ELSE RemoveSubscription(AddSubscription(s, n), n)

\* the directory after it
SubscribeMaster(m, n, addOk, regOk, unregOk) ==
    IF ~addOk THEN m
    ELSE IF regOk THEN RegisterSubscriber(m, n)
    ELSE IF unregOk THEN UnregisterSubscriber(m, n)
    ELSE m

\* subscribe returning the error of add_publishers_to_subscription
SubscribeResult_ConnectErrorReturned(addOk, regOk, connectOk, unregOk) ==
    IF ~addOk THEN Err("add_subscription")
    ELSE IF regOk
    THEN IF connectOk THEN Ok ELSE Err("add_publishers_to_subscription")
    ELSE IF ~unregOk THEN Err("unregister_subscriber")
    ELSE Err("register_subscriber")

\* what it returns; connectOk is the outcome of add_publishers_to_subscription
SubscribeResult(addOk, regOk, connectOk, unregOk) ==
    IF ~addOk THEN Err("add_subscription")
    ELSE IF regOk THEN Ok
    ELSE IF ~unregOk THEN Err("unregister_subscriber")
    ELSE Err("register_subscriber")

\* the calls it makes
SubscribeCalls(s, m, n, addOk, regOk, connectOk, unregOk) ==
    <<Call("add_subscription", n, addOk, n \in s.subs)>>
    \o (IF addOk
        THEN <<Call("register_subscriber", n, regOk, n \in m.subs)>>
        ELSE <<>>)
    \o (IF addOk /\ regOk
        THEN <<Call("add_publishers_to_subscription", n, connectOk, TRUE)>>
        ELSE <<>>)
    \o (IF addOk /\ ~regOk
        THEN <<Call("remove_subscription", n, TRUE, TRUE),
               Call("unregister_subscriber", n, unregOk, n \in m.subs)>>
        ELSE <<>>)

Subscribe ==
    \E topic \in SubscribedTopics :
    \E addOk \in Outcomes(TranslateOk(resolver, topic)) :
    \E regOk \in Outcomes(addOk) :
    \E connectOk \in Outcomes(addOk /\ regOk), unregOk \in Outcomes(addOk /\ ~regOk) :
        /\ alive /\ pc = "ready"
        /\ op' = [fn |-> "subscribe", arg |-> topic]
        /\ IF ~TranslateOk(resolver, topic)
           THEN /\ target' = <<>>
                /\ result' = Err("translate")
                /\ calls' = <<>>
                /\ UNCHANGED <<slave, master>>
           ELSE LET n == Translate(resolver, topic)
                IN  /\ target' = n
                    /\ slave' = SubscribeSlave(slave, n, addOk, regOk)
                    /\ master' = SubscribeMaster(master, n, addOk, regOk, unregOk)
                    /\ result' = SubscribeResult(addOk, regOk, connectOk, unregOk)
                    /\ calls' = SubscribeCalls(slave, master, n, addOk, regOk,
                                               connectOk, unregOk)
        /\ WaitLocalsGone
        /\ UNCHANGED <<rosVars, pc>>

----------------------------------------------------------------------------
(* Ros::service.                                                           *)

\* the slave after service(service) with service resolved to n
ServiceSlave(s, n, addOk, regOk) ==
    IF ~addOk THEN s
    ELSE IF regOk THEN AddService(s, n)
    ELSE RemoveService(AddService(s, n), n)

\* the directory after it
ServiceMaster(m, n, addOk, regOk, unregOk) ==
    IF ~addOk THEN m
    ELSE IF regOk THEN RegisterService(m, n)
    ELSE IF unregOk THEN UnregisterService(m, n)
    ELSE m

\* what it returns
ServiceResult(addOk, regOk, unregOk) ==
    IF ~addOk THEN Err("add_service")
    ELSE IF regOk THEN Ok
    ELSE IF ~unregOk THEN Err("unregister_service")
    ELSE Err("register_service")

\* service telling the directory before the slave offers the service
ServiceCalls_RegisterFirst(s, m, n, addOk, regOk, unregOk) ==
    <<Call("register_service", n, regOk, n \in m.srvs),
      Call("add_service", n, addOk, n \in s.srvs)>>
    \o (IF addOk /\ ~regOk
        THEN <<Call("remove_service", n, TRUE, TRUE),
               Call("unregister_service", n, unregOk, n \in m.srvs)>>
        ELSE <<>>)

\* the calls it makes
ServiceCalls(s, m, n, addOk, regOk, unregOk) ==
    <<Call("add_service", n, addOk, n \in s.srvs)>>
    \o (IF addOk
        THEN <<Call("register_service", n, regOk, n \in m.srvs)>>
        ELSE <<>>)
    \o (IF addOk /\ ~regOk
        THEN <<Call("remove_service", n, TRUE, TRUE),
               Call("unregister_service", n, unregOk, n \in m.srvs)>>
        ELSE <<>>)

Service ==
    \E service \in Services :
    \E addOk \in Outcomes(TranslateOk(resolver, service)) :
    \E regOk \in Outcomes(addOk) :
    \E unregOk \in Outcomes(addOk /\ ~regOk) :
        /\ alive /\ pc = "ready"
        /\ op' = [fn |-> "service", arg |-> service]
        /\ IF ~TranslateOk(resolver, service)
           THEN /\ target' = <<>>
                /\ result' = Err("translate")
                /\ calls' = <<>>
                /\ UNCHANGED <<slave, master>>
           ELSE LET n == Translate(resolver, service)
                IN  /\ target' = n
                    /\ slave' = ServiceSlave(slave, n, addOk, regOk)
                    /\ master' = ServiceMaster(master, n, addOk, regOk, unregOk)
                    /\ result' = ServiceResult(addOk, regOk, unregOk)
                    /\ calls' = ServiceCalls(slave, master, n, addOk, regOk, unregOk)
        /\ WaitLocalsGone
        /\ UNCHANGED <<rosVars, pc>>

----------------------------------------------------------------------------
(* Ros::client and Ros::wait_for_service.                                  *)

\* What master.lookup_service answers: Ok(uri), or a ResponseError.
Responses ==
    {[kind |-> "Ok", msg |-> ""],
     [kind |-> "Client", msg |-> "no provider"],
     [kind |-> "Client", msg |-> "other"],
     [kind |-> "Server", msg |-> "no provider"]}

\* client looking up the name as given when it does not translate
Client_LookupUnresolved ==
    \E service \in Services, resp \in Responses :
        /\ alive /\ pc = "ready"
        /\ op' = [fn |-> "client", arg |-> service]
        /\ LET n == IF TranslateOk(resolver, service)
                    THEN Translate(resolver, service)
                    ELSE service
           IN  /\ target' = n
               /\ result' = IF resp.kind = "Ok" THEN Ok
                            ELSE Err("lookup_service")
               /\ calls' = <<Call("lookup_service", n, resp.kind = "Ok",
                                  resp.kind = "Ok")>>
        /\ WaitLocalsGone
        /\ UNCHANGED <<rosVars, slave, master, pc>>

Client ==
    \E service \in Services, resp \in Responses :
        /\ alive /\ pc = "ready"
        /\ op' = [fn |-> "client", arg |-> service]
        /\ IF ~TranslateOk(resolver, service)
           THEN /\ target' = <<>>
                /\ result' = Err("translate")
                /\ calls' = <<>>
           ELSE LET n == Translate(resolver, service)
                IN  /\ target' = n
                    /\ result' = IF resp.kind = "Ok" THEN Ok
                                 ELSE Err("lookup_service")
                    /\ calls' = <<Call("lookup_service", n, resp.kind = "Ok",
                                       resp.kind = "Ok")>>
        /\ WaitLocalsGone
        /\ UNCHANGED <<rosVars, slave, master, pc>>

\* Duration::from_millis(100)
SleepMillis == 100

\* The timeout arguments.
Timeouts == {NoTimeout} \cup {Some(k * Tick) : k \in 0..MaxTimeoutTicks}

\* No deadline check of a call with a timeout sees more than this.
ElapsedCap ==
    MaxTimeoutTicks * Tick + SleepMillis
        + (MaxOversleepTicks + MaxLookupTicks) * Tick

\* now.elapsed() after d more milliseconds
Later(el, d) == Min(el + d, ElapsedCap)

\* the match arm taking every error with the message "no provider"
IsNoProvider_AnyKind(e) == e.msg = "no provider"

\* ResponseError::Client(ref m) if m == "no provider"
IsNoProvider(e) == e.kind = "Client" /\ e.msg = "no provider"

\* the deadline check counting the sleep that has not happened yet
DeadlinePassed_BeforeSleep(t, el) == t.some /\ el + SleepMillis > t.d

\* if let Some(ref timeout) = timeout { if &now.elapsed() > timeout
DeadlinePassed(t, el) == t.some /\ el > t.d

\* wait_for_service up to the loop: translate, then Instant::now()
WaitForService ==
    \E service \in Services, t \in Timeouts :
        /\ alive /\ pc = "ready"
        /\ op' = [fn |-> "wait_for_service", arg |-> service]
        /\ calls' = <<>>
        /\ timeout' = t
        /\ elapsed' = 0
        /\ lookups' = 0
        /\ lastResp' = NoResponse
        /\ IF ~TranslateOk(resolver, service)
           THEN /\ target' = <<>>
                /\ result' = Err("translate")
                /\ pc' = "ready"
           ELSE /\ target' = Translate(resolver, service)
                /\ result' = NoResult
                /\ pc' = "lookup"
        /\ UNCHANGED <<rosVars, slave, master>>

\* the loop body checking the deadline after every answer, also after Ok
Lookup_DeadlineAfterEveryAnswer(resp) ==
    /\ pc = "lookup"
    /\ \E k \in 0..MaxLookupTicks : elapsed' = Later(elapsed, k * Tick)
    /\ lookups' = Min(lookups + 1, MaxCount)
    /\ lastResp' = resp
    /\ IF DeadlinePassed(timeout, elapsed') /\ (resp.kind = "Ok" \/ IsNoProvider(resp))
       THEN result' = TimeoutError /\ pc' = "ready"
       ELSE IF resp.kind = "Ok"
       THEN result' = Ok /\ pc' = "ready"
       ELSE IF IsNoProvider(resp)
       THEN result' = result /\ pc' = "sleep"
       ELSE result' = Err("lookup_service") /\ pc' = "ready"
    /\ UNCHANGED <<rosVars, slave, master, op, target, calls, timeout>>

\* one lookup_service answered resp, and what the loop body makes of it
Lookup(resp) ==
    /\ pc = "lookup"
    /\ \E k \in 0..MaxLookupTicks : elapsed' = Later(elapsed, k * Tick)
    /\ lookups' = Min(lookups + 1, MaxCount)
    /\ lastResp' = resp
    /\ IF resp.kind = "Ok"
       THEN result' = Ok /\ pc' = "ready"
       ELSE IF IsNoProvider(resp)
       THEN IF DeadlinePassed(timeout, elapsed')
            THEN result' = TimeoutError /\ pc' = "ready"
            ELSE result' = result /\ pc' = "sleep"
       ELSE result' = Err("lookup_service") /\ pc' = "ready"
    /\ UNCHANGED <<rosVars, slave, master, op, target, calls, timeout>>

WaitLookup == \E resp \in Responses : Lookup(resp)

\* the loop continuing without the sleep
WaitSleep_NoSleep ==
    /\ pc = "sleep"
    /\ pc' = "lookup"
    /\ UNCHANGED <<rosVars, slave, master, op, target, result, calls,
                   waitVars>>

\* sleep(Duration::from_millis(100)); continue
WaitSleep ==
    /\ pc = "sleep"
    /\ \E k \in 0..MaxOversleepTicks :
        elapsed' = Later(elapsed, SleepMillis + k * Tick)
    /\ pc' = "lookup"
    /\ UNCHANGED <<rosVars, slave, master, op, target, result, calls,
                   timeout, lookups, lastResp>>

----------------------------------------------------------------------------
(* Ros::name, Ros::param, Ros::parameters, Ros::state and Ros::topics.     *)

\* Option::None, returned by param
NoneOption == [tag |-> "None", from |-> "translate"]

\* The names param is called with.
Params == {<<"a">>, <<"a", " ">>}

\* name(): target is the string it returns
Name ==
    /\ alive /\ pc = "ready"
    /\ op' = [fn |-> "name", arg |-> <<>>]
    /\ target' = name
    /\ result' = Ok
    /\ calls' = <<>>
    /\ WaitLocalsGone
    /\ UNCHANGED <<rosVars, slave, master, pc>>

\* param(name): Some(Parameter) with the translated name, or None
Param ==
    \E n \in Params :
        /\ alive /\ pc = "ready"
        /\ op' = [fn |-> "param", arg |-> n]
        /\ IF TranslateOk(resolver, n)
           THEN target' = Translate(resolver, n) /\ result' = Ok
           ELSE target' = <<>> /\ result' = NoneOption
        /\ calls' = <<>>
        /\ WaitLocalsGone
        /\ UNCHANGED <<rosVars, slave, master, pc>>

\* A view of the directory: one call on the master, its answer passed on.
PassThrough(fn, call) ==
    \E ok \in BOOLEAN :
        /\ alive /\ pc = "ready"
        /\ op' = [fn |-> fn, arg |-> <<>>]
        /\ target' = <<>>
        /\ result' = IF ok THEN Ok ELSE Err(call)
        /\ calls' = <<Call(call, <<>>, ok, TRUE)>>
        /\ WaitLocalsGone
        /\ UNCHANGED <<rosVars, slave, master, pc>>

Parameters == PassThrough("parameters", "get_param_names")
State == PassThrough("state", "get_system_state")
TopicsView == PassThrough("topics", "get_topic_types")

----------------------------------------------------------------------------
(* Dropping a publisher handle, and the shutdown of the node (the slave).  *)

\* The entries of the slave tables, each with the call that unregisters it.
Entries(t) ==
    {<<"unregister_publisher", n>> : n \in t.pubs}
        \cup {<<"unregister_subscriber", n>> : n \in t.subs}
        \cup {<<"unregister_service", n>> : n \in t.srvs}

\* The directory after the unregister calls of done succeeded.
Unregistered(m, done) ==
    [pubs |-> {n \in m.pubs : <<"unregister_publisher", n>> \notin done},
     subs |-> {n \in m.subs : <<"unregister_subscriber", n>> \notin done},
     srvs |-> {n \in m.srvs : <<"unregister_service", n>> \notin done}]

RECURSIVE UnregisterCalls(_, _, _)
\* One unregister call for every entry; those of failed fail.
UnregisterCalls(entries, failed, m) ==
    IF entries = {} THEN <<>>
    ELSE LET e == CHOOSE x \in entries : TRUE
         IN  <<Call(e[1], e[2], e \notin failed, e \in Entries(m))>>
                 \o UnregisterCalls(entries \ {e}, failed, m)

\* The publisher handle of a publication is dropped: the publication is
\* destroyed and the directory is called to unregister it.
DropPublisher ==
    \E n \in slave.pubs, unregOk \in BOOLEAN :
        /\ alive /\ pc = "ready"
        /\ op' = [fn |-> "drop_publisher", arg |-> n]
        /\ target' = n
        /\ slave' = RemovePublication(slave, n)
        /\ master' = IF unregOk THEN UnregisterPublisher(master, n) ELSE master
        /\ result' = Ok
        /\ calls' = <<Call("remove_publication", n, TRUE, TRUE),
                      Call("unregister_publisher", n, unregOk, n \in master.pubs)>>
        /\ WaitLocalsGone
        /\ UNCHANGED <<rosVars, pc>>

\* Shutdown: for every publication, subscription and service the directory is
\* called to unregister, then the sockets are closed.
Shutdown ==
    \E failed \in SUBSET Entries(slave) :
        /\ alive /\ pc = "ready"
        /\ op' = [fn |-> "shutdown", arg |-> <<>>]
        /\ target' = <<>>
        /\ master' = Unregistered(master, Entries(slave) \ failed)
        /\ slave' = EmptyTables
        /\ result' = Ok
        /\ calls' = UnregisterCalls(Entries(slave), failed, master)
                        \o <<Call("close_sockets", <<>>, TRUE, TRUE)>>
        /\ pc' = "down"
        /\ WaitLocalsGone
        /\ UNCHANGED rosVars

----------------------------------------------------------------------------

Next ==
    \/ Publish
    \/ Subscribe
    \/ Service
    \/ Client
    \/ WaitForService
    \/ WaitLookup
    \/ WaitSleep
    \/ Name
    \/ Param
    \/ Parameters
    \/ State
    \/ TopicsView
    \/ DropPublisher
    \/ Shutdown

Spec == Init /\ [][Next]_vars

----------------------------------------------------------------------------
(* wait_for_service against a directory that answers every lookup_service *)
(* with the client error "no provider"; every lookup returns and every     *)
(* sleep ends.                                                             *)

LookupNoProvider == Lookup([kind |-> "Client", msg |-> "no provider"])

NextNoProvider ==
    \/ WaitForService
    \/ LookupNoProvider
    \/ WaitSleep

SpecNoProvider ==
    /\ Init
    /\ [][NextNoProvider]_vars
    /\ WF_vars(LookupNoProvider)
    /\ WF_vars(WaitSleep)

----------------------------------------------------------------------------
(* Properties.                                                             *)

\* the facade call made last made the call fn with outcome ok
HasCall(fn, ok) == \E i \in DOMAIN calls : calls[i].fn = fn /\ calls[i].ok = ok
Called(fn) == \E i \in DOMAIN calls : calls[i].fn = fn

\* C1: when the slave add_* step succeeded and the register_* call failed,
\* the slave holds no entry for the resolved name when publish, subscribe
\* or service returns.
C1_RolledBack ==
    /\ (op.fn = "publish" /\ HasCall("add_publication", TRUE)
            /\ HasCall("register_publisher", FALSE))
        => target \notin slave.pubs
    /\ (op.fn = "subscribe" /\ HasCall("add_subscription", TRUE)
            /\ HasCall("register_subscriber", FALSE))
        => target \notin slave.subs
    /\ (op.fn = "service" /\ HasCall("add_service", TRUE)
            /\ HasCall("register_service", FALSE))
        => target \notin slave.srvs

\* C1 witness: a publish on a topic published before, whose register_publisher
\* failed, has returned.
C1_Witness ==
    /\ op.fn = "publish"
    /\ \E i \in DOMAIN calls :
        calls[i].fn = "add_publication" /\ calls[i].ok /\ calls[i].held
    /\ HasCall("register_publisher", FALSE)
    /\ target \notin slave.pubs

\* C2: when the register_* call fails, publish, subscribe and service return
\* the error of that register_* call, whatever the calls made afterwards did.
C2_RegisterErrorReturned ==
    /\ (op.fn = "publish" /\ HasCall("register_publisher", FALSE))
        => result = Err("register_publisher")
    /\ (op.fn = "subscribe" /\ HasCall("register_subscriber", FALSE))
        => result = Err("register_subscriber")
    /\ (op.fn = "service" /\ HasCall("register_service", FALSE))
        => result = Err("register_service")

\* C3: an unregister_* call is made only for a name the directory holds a
\* registration of this node for: one made by an earlier register_* call that
\* succeeded, and not unregistered since.
C3_UnregisterOnlyRegistered ==
    \A i \in DOMAIN calls :
        calls[i].fn \in {"unregister_publisher", "unregister_subscriber",
                         "unregister_service"}
            => calls[i].held

\* C4: when no facade call is in progress, the slave holds a publication
\* (subscription, service) for a name iff the directory holds the registration
\* of this node for that name.
C4_SlaveIffDirectory ==
    pc = "ready" =>
        /\ slave.pubs = master.pubs
        /\ slave.subs = master.subs
        /\ slave.srvs = master.srvs

\* C5: when publish(topic) returned Ok the directory holds the publisher
\* registration under the resolved name: with the namespace prefixed and the
\* remapping applied (with a remapped to /b, publishing a registers /b).
C5_RegisteredUnderResolvedName ==
    (op.fn = "publish" /\ result = Ok) =>
        /\ Translate(resolver, op.arg) \in master.pubs
        /\ (op.arg = <<"a">> /\ resolver.namespace = <<>>
                /\ resolver.mapper = {})
            => <<"/", "a">> \in master.pubs
        /\ (op.arg = <<"a">> /\ resolver.namespace = <<"/", "w">>
                /\ resolver.mapper = {})
            => <<"/", "w", "/", "a">> \in master.pubs
        /\ (op.arg = <<"a">> /\ resolver.mapper # {})
            => <<"/", "b">> \in master.pubs

\* C5 witness: publish of the relative name a returned Ok on a node in the
\* namespace /w that remaps a, and /b is registered.
C5_Witness ==
    /\ op.fn = "publish" /\ result = Ok
    /\ op.arg = <<"a">>
    /\ resolver.namespace = <<"/", "w">>
    /\ resolver.mapper = {<< <<"/", "w", "/", "a">>, <<"/", "b">> >>}
    /\ master.pubs = {<<"/", "b">>}

\* C6: once a publisher handle is dropped, or the node is shut down, the
\* directory holds no publisher registration of this node for the topic, and
\* after shutdown no registration of this node at all, every unregister call
\* having been made before the sockets were closed.  Checked for the drops
\* and shutdowns whose own unregister calls the directory accepted.
C6_ReleasedAfterDropOrShutdown ==
    /\ (op.fn = "drop_publisher" /\ \A i \in DOMAIN calls : calls[i].ok)
        => target \notin master.pubs
    /\ (op.fn = "shutdown" /\ \A i \in DOMAIN calls : calls[i].ok)
        => /\ master = EmptyTables
           /\ calls[Len(calls)].fn = "close_sockets"

\* C7: subscribe returns Ok whenever register_subscriber succeeded, also when
\* add_publishers_to_subscription failed; the subscription stays in the slave
\* and neither remove_subscription nor unregister_subscriber is called.
C7_SubscribeOkDespiteConnectFailure ==
    (op.fn = "subscribe" /\ HasCall("register_subscriber", TRUE)) =>
        /\ result = Ok
        /\ target \in slave.subs
        /\ target \in master.subs
        /\ ~Called("remove_subscription")
        /\ ~Called("unregister_subscriber")

\* C7 witness: a subscribe whose add_publishers_to_subscription failed has
\* returned.
C7_Witness ==
    /\ op.fn = "subscribe"
    /\ HasCall("register_subscriber", TRUE)
    /\ HasCall("add_publishers_to_subscription", FALSE)
    /\ result = Ok

\* wait_for_service has returned
WaitReturned == op.fn = "wait_for_service" /\ pc = "ready"

\* C8 as stated: wait_for_service exits with exactly one of three outcomes:
\* Ok after a lookup that succeeded, the error of a lookup that failed with
\* something else than the client error "no provider", or TimeoutError after
\* a lookup that answered "no provider".
C8_ThreeOutcomes ==
    WaitReturned =>
        /\ result \in {Ok, Err("lookup_service"), TimeoutError}
        /\ result = Ok => lastResp.kind = "Ok"
        /\ result = TimeoutError
            => (lastResp.kind = "Client" /\ lastResp.msg = "no provider")

\* C8 outcomes: of a call whose name resolved, and of one whose name did not.
C8_Outcomes ==
    /\ (WaitReturned /\ target # <<>>) =>
        /\ lookups >= 1
        /\ result \in {Ok, Err("lookup_service"), TimeoutError}
        /\ result = Ok <=> lastResp.kind = "Ok"
        /\ result = TimeoutError
            => (lastResp.kind = "Client" /\ lastResp.msg = "no provider")
        /\ result = Err("lookup_service")
            <=> (/\ lastResp.kind # "Ok"
                 /\ ~(lastResp.kind = "Client" /\ lastResp.msg = "no provider"))
    /\ (WaitReturned /\ target = <<>>) =>
        /\ result = Err("translate")
        /\ lookups = 0

\* C8 steps: the step of a lookup that succeeds, or that fails with anything
\* but the client error "no provider", is the step that returns: Ok, or the
\* error of the lookup, with no sleep and no further lookup.
C8_ReturnsAtOnce ==
    (/\ pc = "lookup"
     /\ lastResp' # lastResp \/ lookups' # lookups \/ pc' # pc
     /\ ~(lastResp'.kind = "Client" /\ lastResp'.msg = "no provider"))
    => /\ pc' = "ready"
       /\ result' = IF lastResp'.kind = "Ok" THEN Ok ELSE Err("lookup_service")

\* C8 (amended): once the service name has resolved, wait_for_service exits
\* with exactly one of the three outcomes, Ok and the lookup's own error being
\* returned by the step of that lookup; when the name does not resolve it
\* returns the naming error without any lookup.
C8_ThreeOutcomesOnceResolved == []C8_Outcomes /\ [][C8_ReturnsAtOnce]_vars

\* C8 witness: after at least one sleep, a lookup failed with a server error
\* that carries the text "no provider", and the call returned that error.
C8_Witness ==
    /\ WaitReturned
    /\ lookups >= 2
    /\ result = Err("lookup_service")
    /\ lastResp = [kind |-> "Server", msg |-> "no provider"]

\* C9: wait_for_service(name, Some(d)) returns TimeoutError only when at least
\* d has elapsed; with the timeout None it never returns TimeoutError.
C9_NoEarlyTimeout ==
    (op.fn = "wait_for_service" /\ result = TimeoutError) =>
        /\ timeout.some
        /\ elapsed >= timeout.d

\* C9 witness: a call with the largest timeout has returned TimeoutError after
\* more than one lookup.
C9_Witness ==
    /\ WaitReturned
    /\ result = TimeoutError
    /\ timeout = Some(MaxTimeoutTicks * Tick)
    /\ lookups >= 2

C11_SlashInLeafNameRejectedFirst ==
    (\E i \in 1..Len(boot.leaf) : boot.leaf[i] = "/") =>
        /\ ~alive
        /\ result = Err("IllegalCharacter")
        /\ newErr = "IllegalCharacter"
        /\ newErrArg = boot.leaf
        /\ created = <<>>
        /\ ids = NoIds
        /\ calls = <<>>
        /\ slave = EmptyTables /\ master = EmptyTables

\* C11 witness: construction with the leaf name n/m in the root namespace,
\* where /n/m would have been a legal node name and the slave would have
\* started, has failed.
C11_Witness ==
    /\ boot.leaf = <<"n", "/", "m">>
    /\ boot.namespace = <<>>
    /\ boot.maps = <<>>
    /\ ~alive
    /\ newErr = "IllegalCharacter"

\* C12 in a state: the node name is the namespace without its trailing
\* slashes, "/", and the leaf name; name() returns it; it is the caller id
\* the slave and the master client were given.  A legal leaf name in a
\* namespace with a trailing slash does construct a node.
C12_NodeName ==
    /\ alive =>
        /\ boot.namespace = <<>> => name = <<"/">> \o boot.leaf
        /\ boot.namespace = <<"/", "w", "/">>
            => name = <<"/", "w", "/">> \o boot.leaf
        /\ ids = [slave |-> name, master |-> name]
        /\ op.fn = "name" => target = name
    /\ (boot.leaf = <<"n">> /\ boot.maps = <<>>)
        => (alive \/ newErr = "Slave::new")

\* C12: the absolute node name is fixed at construction: it is as C12_NodeName
\* says in every state, and no step of any facade call changes it or the
\* caller ids.
C12_NodeNameFixed == []C12_NodeName /\ [][name' = name /\ ids' = ids]_vars

\* C12 witness: after calls that registered a publisher and a service, name()
\* returned /w/n on a node constructed in the namespace "/w/".
C12_Witness ==
    /\ boot.namespace = <<"/", "w", "/">>
    /\ op.fn = "name"
    /\ target = <<"/", "w", "/", "n">>
    /\ master.pubs # {} /\ master.srvs # {}

\* how often the facade call made last made the call fn
Count(fn) == Cardinality({i \in DOMAIN calls : calls[i].fn = fn})

\* the facade calls of ros.rs that return in one step
OneStepCalls ==
    {"publish", "subscribe", "service", "client", "name", "param",
     "parameters", "state", "topics"}

\* C13, the part on publish, subscribe and service, and on repetition: one
\* call makes exactly one register_* call when the slave add_* step succeeded,
\* and no call but wait_for_service makes the same call twice.
C13_RegisterOnce ==
    /\ (op.fn = "publish" /\ HasCall("add_publication", TRUE))
        => Count("register_publisher") = 1
    /\ (op.fn = "subscribe" /\ HasCall("add_subscription", TRUE))
        => Count("register_subscriber") = 1
    /\ (op.fn = "service" /\ HasCall("add_service", TRUE))
        => Count("register_service") = 1
    /\ op.fn \in OneStepCalls
        => \A i, j \in DOMAIN calls : calls[i].fn = calls[j].fn => i = j

\* C13 as stated: directory calls are not retried, and one invocation of
\* client makes exactly one lookup_service.
C13_ExactlyOneCall ==
    /\ C13_RegisterOnce
    /\ op.fn = "client" => Count("lookup_service") = 1

\* C13 (amended): as C13, with client making exactly one lookup_service when
\* the service name resolves, and none when it does not.
C13_ExactlyOneCallOnceResolved ==
    /\ C13_RegisterOnce
    /\ op.fn = "client" =>
        Count("lookup_service") = (IF target = <<>> THEN 0 ELSE 1)

\* C13 witness: a publish whose register_publisher failed has returned, and a
\* publication of the topic was registered before.
C13_Witness ==
    /\ op.fn = "publish"
    /\ \E i \in DOMAIN calls :
        calls[i].fn = "register_publisher" /\ ~calls[i].ok /\ calls[i].held

\* the calls on the slave that create an entry, and the calls on the directory
AddCalls == {"add_publication", "add_subscription", "add_service"}
DirectoryCalls ==
    {"register_publisher", "register_subscriber", "register_service",
     "unregister_publisher", "unregister_subscriber", "unregister_service"}

\* C14: in publish, subscribe and service the slave add_* call is the first
\* call, every directory call comes after an add_* call that succeeded, and
\* when the add_* call fails its error is returned and nothing else is called.
C14_SlaveBeforeDirectory ==
    op.fn \in {"publish", "subscribe", "service"} =>
        /\ target # <<>> => (Len(calls) >= 1 /\ calls[1].fn \in AddCalls)
        /\ \A i \in DOMAIN calls :
            calls[i].fn \in DirectoryCalls
                => \E j \in 1..(i - 1) : calls[j].fn \in AddCalls /\ calls[j].ok
        /\ \A i \in DOMAIN calls :
            (calls[i].fn \in AddCalls /\ ~calls[i].ok)
                => /\ result = Err(calls[i].fn)
                   /\ Len(calls) = 1

\* C14 witness: a service call whose add_service failed has returned.
C14_Witness ==
    /\ op.fn = "service"
    /\ HasCall("add_service", FALSE)
    /\ result = Err("add_service")

\* C15: a publish that fails leaves every publication of an earlier
\* successful publish in the slave and registered in the directory, also the
\* one on the same topic.
C15_FailedPublishKeepsEarlier ==
    [][(pc = "ready" /\ op'.fn = "publish" /\ result'.tag = "Err")
        => \A n \in slave.pubs \cap master.pubs :
            n \in slave'.pubs /\ n \in master'.pubs]_vars

\* the name with an illegal character that every operation is called with
IllegalName == <<"a", " ">>

\* C16, the state after the call: called with a name that does not translate,
\* publish, subscribe, service, client and wait_for_service return the naming
\* error having made no call and no lookup, and param returns None.
C16_NamingErrorReturned ==
    op.arg = IllegalName =>
        /\ op.fn \in {"publish", "subscribe", "service", "client",
                      "wait_for_service"}
            => /\ result = Err("translate")
               /\ calls = <<>>
               /\ lookups = 0
               /\ pc = "ready"
        /\ op.fn = "param" => (result = NoneOption /\ calls = <<>>)

\* C16, the step of the call: it changes neither the slave tables nor the
\* directory.
C16_TablesUntouched ==
    (pc = "ready" /\ op'.arg = IllegalName)
        => (slave' = slave /\ master' = master)

\* C16: when the name does not translate, publish, subscribe, service, client
\* and wait_for_service return the naming error without any call on the slave
\* or the directory and leave the tables as they were; param returns None.
C16_NamingErrorBeforeAnyCall ==
    []C16_NamingErrorReturned /\ [][C16_TablesUntouched]_vars

\* C16 witness: client was called with the illegal name while a publication
\* was registered, and returned the naming error.
C16_Witness ==
    /\ op = [fn |-> "client", arg |-> IllegalName]
    /\ result = Err("translate")
    /\ slave.pubs # {} /\ master.pubs # {}

\* C17, states: a wait_for_service call whose name resolved returns only
\* after at least one lookup, also with a timeout of zero, and TimeoutError
\* only on the answer "no provider".
C17_LookupBeforeReturn ==
    (op.fn = "wait_for_service" /\ pc = "ready" /\ target # <<>>) =>
        /\ lookups >= 1
        /\ result = TimeoutError
            => lastResp = [kind |-> "Client", msg |-> "no provider"]

\* C17, steps: a lookup is followed by the return or by the sleep, never by
\* another lookup; the sleep takes at least 100 ms (up to the cap of the
\* clock) and is followed by a lookup; a lookup answered Ok returns Ok, also
\* after the deadline.
C17_Steps ==
    /\ (pc = "lookup" /\ pc' # pc) => pc' \in {"ready", "sleep"}
    /\ (pc = "sleep" /\ pc' # pc) =>
        /\ pc' = "lookup"
        /\ lookups' = lookups
        /\ elapsed' >= elapsed + SleepMillis \/ elapsed' = ElapsedCap
    /\ (pc = "lookup" /\ pc' = "ready" /\ lastResp'.kind = "Ok")
        => result' = Ok
    /\ (pc = "lookup" /\ pc' = "sleep")
        => ~(timeout.some /\ elapsed' > timeout.d)

C18_MappingsApplied ==
    /\ (alive /\ boot.maps = <<>>) => resolver.mapper = {}
    /\ (alive /\ boot.maps # <<>> /\ boot.namespace = <<>>)
        => resolver.mapper = {<< <<"/", "a">>, <<"/", "b">> >>}
    /\ (alive /\ boot.maps # <<>> /\ boot.namespace # <<>>)
        => resolver.mapper = {<< <<"/", "w", "/", "a">>, <<"/", "b">> >>}
    /\ (boot.maps # <<>> /\ boot.maps[1][1] = IllegalName) =>
        /\ ~alive
        /\ result.tag = "Err"
        /\ boot.leaf = <<"n">> => newErr \in {"Slave::new", "Resolver::map"}

\* C18: the remap table is written only during construction: Ros::new
\* applies every bootstrap mapping before it returns, fails when one is
\* rejected, and no later operation changes the resolver.
C18_RemapOnlyAtConstruction ==
    []C18_MappingsApplied /\ [][resolver' = resolver]_vars

\* C18 witness: a node built with the mapping a -> /b in the namespace /w has
\* published a, and the publication is registered as /b.
C18_Witness ==
    /\ alive
    /\ boot.namespace = <<"/", "w", "/">>
    /\ boot.maps # <<>>
    /\ op = [fn |-> "publish", arg |-> <<"a">>]
    /\ result = Ok
    /\ master.pubs = {<<"/", "b">>}

====
